---- MODULE Spec2Model ----
(***************************************************************************)
(* A model of nekoyume/models.py: the persisted chain of each node (the    *)
(* block and move tables), block minting (User.create_block), the chain    *)
(* sync against a peer (Block.sync with its branch-point probe) and the    *)
(* submission and gossip of signed moves.                                  *)
(*                                                                         *)
(* Hashes are modelled as collision-free: a SHA-256 digest is the tuple of *)
(* what was hashed.  Timestamps are integers in microseconds, the          *)
(* resolution of datetime.                                                 *)
(***************************************************************************)
EXTENDS Integers, Sequences, FiniteSets, TLC

VARIABLES store, pending, mints, last, probe, cache, got, net, combat, trial

vars == <<store, pending, mints, last, probe, cache, got, net, combat, trial>>

-----------------------------------------------------------------------------
(* Bounds of the model.                                                    *)

\* number of create_block calls in a run of Spec
MaxMints == 3
\* number of distinct signed moves users create
NumMoves == 1
\* number of create_block calls in a run of SpecMint
MaxMintHeight == 4
\* greatest local tip of the probe inputs in SpecProbe
MaxTip == 7

-----------------------------------------------------------------------------
(* Values.                                                                 *)

Nodes == {"A", "B"}

\* Move.block_id is nullable: 0 stands for null (block ids start at 1).
NoBlock == 0

\* Block.prev_hash of the genesis block is None.
NoHash == <<>>

Max(a, b) == IF a >= b THEN a ELSE b

Min(a, b) == IF a <= b THEN a ELSE b

\* sorted(...) of a finite set of integers, ascending.
RECURSIVE Sorted(_)
Sorted(S) ==
    IF S = {} THEN <<>>
    ELSE LET m == CHOOSE x \in S : \A y \in S : x <= y
         IN  <<m>> \o Sorted(S \ {m})

\* int(x / 2) of Python: the float quotient truncated toward zero.
IntHalf(x) == IF x >= 0 THEN x \div 2 ELSE -((-x) \div 2)

-----------------------------------------------------------------------------
(* Timestamps on the wire: str(datetime) and datetime.strptime.            *)

\* str(datetime): "YYYY-MM-DD HH:MM:SS.ffffff", and without the fraction
\* when the microsecond field is 0.
FormatTime(t) ==
    IF t % 1000000 = 0
    THEN <<t \div 1000000>>
    ELSE <<t \div 1000000, t % 1000000>>

\* strptime(s, '%Y-%m-%d %H:%M:%S.%f') raises ValueError when the string
\* carries no fraction.
ParseFails(w) == Len(w) # 2

ParseTime(w) == w[1] * 1000000 + w[2]

-----------------------------------------------------------------------------
(* Moves.                                                                  *)

MoveIds == 1 .. NumMoves

\* The moves users make, by body: who signs it, its name and its details
\* (the users are the two accounts that also mine, "A" and "B").  Details
\* are stored as strings and read back with int(): the numbers themselves.
MoveCatalog(k) ==
    CASE k = 1 -> [signer |-> "A", name |-> "create_novice",
                   details |-> [strength |-> 13, dexterity |-> 10,
                                constitution |-> 9, intelligence |-> 10,
                                wisdom |-> 10, charisma |-> 10]]
      [] k = 2 -> [signer |-> "B", name |-> "send",
                   details |-> [item_name |-> "GOLD", amount |-> 1,
                                receiver |-> <<"base58", "A">>]]
      [] k = 3 -> [signer |-> "B", name |-> "send",
                   details |-> [item_name |-> "FSWD", amount |-> 1,
                                receiver |-> <<"base58", "A">>]]
      [] k = 4 -> [signer |-> "A", name |-> "combine",
                   details |-> [item1 |-> "FSWD", item2 |-> "FSWD",
                                item3 |-> "FSWD"]]
      [] k = 5 -> [signer |-> "A", name |-> "sell",
                   details |-> [item_name |-> "FSWD", price |-> 1]]
      [] k = 6 -> [signer |-> "A", name |-> "sleep", details |-> <<>>]
      [] k = 7 -> [signer |-> "A", name |-> "level_up",
                   details |-> [new_status |-> "constitution"]]
      [] k = 8 -> [signer |-> "A", name |-> "say",
                   details |-> [content |-> "hello"]]
      [] k = 9 -> [signer |-> "A", name |-> "hack_and_slash",
                   details |-> [spot |-> ""]]
      [] k = 10 -> [signer |-> "A", name |-> "buy",
                    details |-> [move_id |-> 5]]
      [] k = 11 -> [signer |-> "A", name |-> "dance", details |-> <<>>]
      [] k = 12 -> [signer |-> "A", name |-> "level_up",
                    details |-> [new_status |-> "strength"]]
      [] k = 13 -> [signer |-> "A", name |-> "level_up",
                    details |-> [new_status |-> "dexterity"]]
      [] k = 14 -> [signer |-> "A", name |-> "level_up",
                    details |-> [new_status |-> "intelligence"]]
      [] k = 15 -> [signer |-> "A", name |-> "level_up",
                    details |-> [new_status |-> "wisdom"]]
      [] k = 16 -> [signer |-> "A", name |-> "level_up",
                    details |-> [new_status |-> "charisma"]]
      [] k = 17 -> [signer |-> "A", name |-> "level_up",
                    details |-> [new_status |-> "hp"]]
      [] k = 18 -> [signer |-> "B", name |-> "create_novice",
                    details |-> [strength |-> 10, dexterity |-> 10,
                                 constitution |-> 10, intelligence |-> 10,
                                 wisdom |-> 10, charisma |-> 10]]
      [] OTHER -> [signer |-> "A", name |-> "send",
                   details |-> [item_name |-> "GOLD", amount |-> 8,
                                receiver |-> <<"base58", "B">>]]

\* A key that signs no move of the users: the one forged signatures name.
UserKey == "key"

get_address(public_key) == <<"base58", public_key>>

\* The signed payload of a move: serialize(include_signature=False).
MovePayload(m) == <<m.user, m.body, FormatTime(m.created_at)>>

\* seccure.verify(payload, signature part 0, public key): a signature is the
\* payload it was made over and the key that made it.
Verify(payload, sig, public_key) == sig = <<"sig", public_key, payload>>

\* Move.hash: SHA-256 of serialize(include_signature=True), as an integer so
\* that ids sort.  The universe holds one body per move and, per body, the
\* user's signature or a forged one: the code is injective on it.
MoveHash(m) ==
    2 * m.body - (IF m.signature[1] = <<"sig", m.signature[2], MovePayload(m)>>
                  THEN 1 ELSE 0)

\* A signature that no key made.
ForgedSig == <<<<"forged">>, UserKey>>

\* Move.valid
MoveValid(m) ==
    /\ Len(m.signature) = 2
    /\ Verify(MovePayload(m), m.signature[1], m.signature[2])
    /\ m.user = get_address(m.signature[2])
    /\ m.id = MoveHash(m)

\* datetime.now() of User.move for the k-th move: a whole second for even k.
MoveTime(k) == k * 1000000 + (k % 2)

\* User.sign: the move with body k, signed by the user.
SignedMove(k) ==
    LET key == MoveCatalog(k).signer
        unsigned == [user |-> get_address(key), body |-> k,
                     created_at |-> MoveTime(k)]
        sig == <<<<"sig", key, MovePayload(unsigned)>>, key>>
        signed == [user |-> unsigned.user, body |-> k,
                   created_at |-> unsigned.created_at, signature |-> sig]
    IN  [id |-> MoveHash(signed), user |-> signed.user, body |-> k,
         created_at |-> signed.created_at, signature |-> sig,
         block_id |-> NoBlock]

-----------------------------------------------------------------------------
(* Blocks.                                                                 *)

\* Block.serialize(): the fields that are hashed (prev_hash is left out of
\* the encoding when it is None, which keeps the encoding injective).
BlockStamp(b) ==
    <<b.id, b.creator, b.prev_hash, b.difficulty, b.root_hash,
      FormatTime(b.created_at)>>

\* h((serialize() + suffix).encode()).hexdigest()
BlockHash(b) == <<"sha256", BlockStamp(b), b.suffix>>

\* The root hash of a set of move ids: h(''.join(sorted(ids))).
RootHash(ids) == <<"sha256", Sorted(ids)>>

\* hashcash: a suffix is named by the number of leading zero bits it gives
\* the stamp; _mint(stamp, bits) finds one with at least `bits`.
HashcashMint(bits) == Max(bits, 0)

HashcashCheck(suffix, bits) == suffix >= bits

\* Block.valid: the hash and the proof of work (a block built by sync is not
\* yet in the session, its `moves` relationship is empty).
BlockValid(b) ==
    /\ b.hash = BlockHash(b)
    /\ HashcashCheck(b.suffix, b.difficulty)

-----------------------------------------------------------------------------
(* The store of a node: the block table and the move table.                *)

EmptyStore == [blocks |-> {}, moves |-> {}]

\* session.query(Block).get(id), as a set: empty for None.
GetBlock(s, id) == {b \in s.blocks : b.id = id}

\* session.query(Move).get(id), as a set.
GetMove(s, id) == {m \in s.moves : m.id = id}

\* The id of query(Block).order_by(Block.id.desc()).first(), 0 for None.
TipId(s) ==
    IF s.blocks = {} THEN 0
    ELSE CHOOSE i \in {b.id : b \in s.blocks} : \A b \in s.blocks : b.id <= i

LastBlock(s) == GetBlock(s, TipId(s))

\* block.moves: the moves whose block_id is the block's id.
BlockMoves(s, id) == {m \in s.moves : m.block_id = id}

-----------------------------------------------------------------------------
(* User.move and the gossip of moves.                                      *)

NoEvent ==
    [op |-> "none", node |-> "", peer |-> "", defect |-> "", outcome |-> "",
     bp |-> 0, dropped |-> 0, detached |-> 0, tie |-> FALSE, after |-> "no"]

\* User.move(new_move): sign, check validity, add and commit.
\* Avatar.get returns None.
NoAvatar == [class |-> "None"]

\* No call of Avatar.get has just returned.
NoGot ==
    [op |-> "none", node |-> "", user |-> <<>>, block_id |-> 0, order |-> <<>>,
     hit |-> FALSE, avatar |-> NoAvatar, error |-> "none"]

\* No broadcast is running.
NoNet == [pc |-> "off"]

\* No combat is set up.
NoCombat == [pc |-> "off"]

\* No single operation is set up to run on its own.
NoTrial == [pc |-> "off"]

UserMove(s, k) ==
    LET m == SignedMove(k)
    IN  IF MoveValid(m) THEN [s EXCEPT !.moves = @ \cup {m}] ELSE s

NewMove(n, k) ==
    /\ \A x \in Nodes : GetMove(store[x], SignedMove(k).id) = {}
    /\ store' = [store EXCEPT ![n] = UserMove(store[n], k)]
    /\ last' = NoEvent
    /\ got' = NoGot
    /\ UNCHANGED <<pending, mints, probe, cache, net, combat, trial>>

\* A move broadcast by Move.broadcast arrives at a peer, which stores it
\* unconfirmed when it is valid and not yet known.
GossipMove(n, k) ==
    /\ \E x \in Nodes \ {n} : GetMove(store[x], SignedMove(k).id) # {}
    /\ GetMove(store[n], SignedMove(k).id) = {}
    /\ MoveValid(SignedMove(k))
    /\ store' = [store EXCEPT ![n].moves = @ \cup {SignedMove(k)}]
    /\ last' = NoEvent
    /\ got' = NoGot
    /\ UNCHANGED <<pending, mints, probe, cache, net, combat, trial>>

-----------------------------------------------------------------------------
(* User.create_block.                                                      *)

\* timedelta / int: the quotient in microseconds, rounded half to even.
DivRound(a, b) ==
    LET q == a \div b
        r == a % b
    IN  IF 2 * r > b \/ (2 * r = b /\ q % 2 = 1) THEN q + 1 ELSE q

\* The caller of create_block collects the valid unconfirmed moves.
CollectMoves(s) == {m.id : m \in {x \in s.moves : x.block_id = NoBlock /\ MoveValid(x)}}

\* A difficulty adjusted on the average over the whole chain, from genesis.
NextDifficultyFromGenesis(s, prev, id, now) ==
    LET check == CHOOSE b \in s.blocks : b.id = 1
        avg_timedelta == DivRound(now - check.created_at, id - check.id)
    IN  IF avg_timedelta <= 5000000 THEN prev.difficulty + 1
        ELSE IF avg_timedelta > 15000000 THEN prev.difficulty - 1
        ELSE prev.difficulty

\* The difficulty of the block built on prev_block at time `now`.
NextDifficulty(s, prev, id, now) ==
    LET check == CHOOSE b \in s.blocks : b.id = Max(1, id - 10)
        avg_timedelta == DivRound(now - check.created_at, id - check.id)
    IN  IF avg_timedelta <= 5000000 THEN prev.difficulty + 1
        ELSE IF avg_timedelta > 15000000 THEN prev.difficulty - 1
        ELSE prev.difficulty

\* create_block up to the minted suffix: the block without its hash.
DraftBlock(s, creator, ids, dt) ==
    LET root == RootHash(ids)
    IN  IF LastBlock(s) # {}
        THEN LET prev == CHOOSE b \in LastBlock(s) : TRUE
                 now == prev.created_at + dt
                 d == NextDifficulty(s, prev, prev.id + 1, now)
             IN  [id |-> prev.id + 1, creator |-> creator,
                  prev_hash |-> prev.hash, difficulty |-> d,
                  root_hash |-> root, created_at |-> now,
                  suffix |-> HashcashMint(d)]
        ELSE [id |-> 1, creator |-> creator, prev_hash |-> NoHash,
              difficulty |-> 0, root_hash |-> root, created_at |-> dt,
              suffix |-> HashcashMint(0)]

\* User.create_block of the user with key `key`, on the store of node n:
\* the moves passed to create_block are checked first.
MintAs(n, key, dt, cap) ==
    /\ pending[n] = <<>>
    /\ mints < cap
    /\ mints' = mints + 1
    /\ LET ids == CollectMoves(store[n])
       IN  /\ \A m \in store[n].moves : m.id \in ids => MoveValid(m)
           /\ pending' = [pending EXCEPT ![n] =
                  <<[block |-> DraftBlock(store[n], get_address(key), ids, dt),
                     moves |-> ids]>>]
    /\ last' = NoEvent
    /\ got' = NoGot
    /\ UNCHANGED <<store, probe, cache, net, combat, trial>>

\* The user of a node mints on its store.
MintStart(n, dt, cap) == MintAs(n, n, dt, cap)

RaceLostNever(s, id) == FALSE

\* if self.session.query(Block).get(block.id): return None
RaceLost(s, id) == GetBlock(s, id) # {}

AttachAllMoves(moves, ids, id) == {[m EXCEPT !.block_id = id] : m \in moves}

\* for move in moves: move.block = block
AttachMoves(moves, ids, id) ==
    {IF m.id \in ids THEN [m EXCEPT !.block_id = id] ELSE m : m \in moves}

\* The block with its hash, added and committed with its moves.
CommitBlock(s, draft, ids) ==
    LET b == [id |-> draft.id, creator |-> draft.creator,
              prev_hash |-> draft.prev_hash, difficulty |-> draft.difficulty,
              root_hash |-> draft.root_hash, created_at |-> draft.created_at,
              suffix |-> draft.suffix, hash |-> BlockHash(draft)]
    IN  [blocks |-> s.blocks \cup {b}, moves |-> AttachMoves(s.moves, ids, b.id)]

MintFinish(n) ==
    /\ pending[n] # <<>>
    /\ LET p == pending[n][1]
       IN  IF RaceLost(store[n], p.block.id)
           THEN /\ store' = store
                /\ last' = [NoEvent EXCEPT !.op = "mintfinish", !.node = n,
                                           !.outcome = "lost"]
           ELSE /\ store' = [store EXCEPT ![n] = CommitBlock(store[n], p.block, p.moves)]
                /\ last' = [NoEvent EXCEPT !.op = "mintfinish", !.node = n,
                                           !.outcome = "minted"]
    /\ pending' = [pending EXCEPT ![n] = <<>>]
    /\ got' = NoGot
    /\ UNCHANGED <<mints, probe, cache, net, combat, trial>>

-----------------------------------------------------------------------------
(* What a peer serves: GET /blocks/last, /blocks/<id> and /blocks?from=.   *)

\* Move.serialize(use_bencode=False, include_signature=True, include_id=True)
WireMove(m) ==
    [id |-> m.id, user |-> m.user, body |-> m.body, signature |-> m.signature,
     created_at |-> FormatTime(m.created_at)]

\* Block.serialize(False, True, True, True): suffix, moves and hash included.
WireBlock(s, b) ==
    [id |-> b.id, creator |-> b.creator, prev_hash |-> b.prev_hash,
     difficulty |-> b.difficulty, root_hash |-> b.root_hash,
     created_at |-> FormatTime(b.created_at), suffix |-> b.suffix,
     hash |-> b.hash, moves |-> {WireMove(m) : m \in BlockMoves(s, b.id)}]

\* What a peer may do to the tip it serves.
Defects == {"none", "badmove", "badblock"}

\* A move whose signature no key made; its id is the hash of what is sent.
ForgedMove ==
    LET m == [user |-> get_address(UserKey), body |-> 1,
              created_at |-> MoveTime(1), signature |-> ForgedSig]
    IN  WireMove([id |-> MoveHash(m), user |-> m.user, body |-> m.body,
                  created_at |-> m.created_at, signature |-> m.signature])

\* A peer is not trusted: the tip it serves is its own, or carries a move
\* with a forged signature, or a suffix that is no proof of work, or a
\* prev_hash of no block with the hash recomputed over it.
Tampered(w, defect) ==
    CASE defect = "badmove" -> [w EXCEPT !.moves = @ \cup {ForgedMove}]
      [] defect = "badblock" -> [w EXCEPT !.suffix = w.difficulty - 1]
      [] defect = "badprev" ->
            [w EXCEPT !.prev_hash = <<"forged">>,
                      !.hash = <<"sha256",
                                 <<w.id, w.creator, <<"forged">>, w.difficulty,
                                   w.root_hash, w.created_at>>, w.suffix>>]
      [] OTHER -> w

\* The chain the peer with store ps serves.
Served(ps, defect) ==
    {IF b.id = TipId(ps) THEN Tampered(WireBlock(ps, b), defect)
     ELSE WireBlock(ps, b) : b \in ps.blocks}

\* GET /blocks/<id>: the block, as a set, empty for null.
PeerGet(served, id) == {w \in served : w.id = id}

PeerTipId(served) ==
    IF served = {} THEN 0
    ELSE CHOOSE i \in {w.id : w \in served} : \A w \in served : w.id <= i

\* GET /blocks?from=<id>: the blocks from that id on, ascending.
RECURSIVE PeerFrom(_, _)
PeerFrom(served, from) ==
    IF PeerGet(served, from) = {} THEN <<>>
    ELSE <<CHOOSE w \in PeerGet(served, from) : TRUE>> \o PeerFrom(served, from + 1)

-----------------------------------------------------------------------------
(* Block.sync: the branch-point probe.                                     *)

\* find_branch_point(value, high) over the hashes of the local blocks and of
\* the blocks the peer serves; -1 stands for the AttributeError of
\* block.hash on a missing local block.
RECURSIVE find_branch_point(_, _, _, _)
find_branch_point(blocks, served, value, high) ==
    LET mid == IntHalf(value + high)
        response == {w \in served : w.id = mid}
        block == {b \in blocks : b.id = mid}
    IN  IF value > high THEN 0
        ELSE IF response # {} /\ block = {} THEN -1
        ELSE IF response # {}
                /\ (CHOOSE b \in block : TRUE).hash
                     = (CHOOSE w \in response : TRUE).hash
             THEN IF value = mid THEN value
                  ELSE find_branch_point(blocks, served, mid, high)
             ELSE find_branch_point(blocks, served, value, mid - 1)

\* A probe that always takes the local tip for the branch point.
BranchPointAtTip(blocks, served, tip) == tip

\* The branch point of sync: the tip check, then the search from 0.
BranchPoint(blocks, served, tip) ==
    IF tip # 0
    THEN IF find_branch_point(blocks, served, tip, tip) = tip THEN tip
         ELSE find_branch_point(blocks, served, 0, tip)
    ELSE 0

-----------------------------------------------------------------------------
(* Block.sync: rollback of the local branch and catch-up.                  *)

\* A rollback that deletes nothing and detaches nothing.
KeepBranch(s, branch_point) == s

\* A rollback that deletes the moves of the blocks it deletes.
DropBranchMoves(s, branch_point) ==
    [blocks |-> {b \in s.blocks : b.id <= branch_point},
     moves |-> {m \in s.moves : m.block_id <= branch_point}]

\* for block in query(Block).filter(Block.id > branch_point):
\*     for move in block.moves: move.block_id = None
\*     session.delete(block)
DeleteBranch(s, branch_point) ==
    LET gone == {b.id : b \in {x \in s.blocks : x.id > branch_point}}
    IN  [blocks |-> {b \in s.blocks : b.id <= branch_point},
         moves |-> {IF m.block_id \in gone THEN [m EXCEPT !.block_id = NoBlock]
                    ELSE m : m \in s.moves}]

\* The Move row built from a served move.
NewMoveRow(w, block_id) ==
    [id |-> w.id, user |-> w.user, body |-> w.body, signature |-> w.signature,
     created_at |-> ParseTime(w.created_at), block_id |-> block_id]

\* The served moves of one block, in the order given: each is looked up by
\* id, built when unknown, checked and added to the session.
RECURSIVE ApplyMoves(_, _, _)
ApplyMoves(s, ws, block_id) ==
    IF ws = <<>> THEN [store |-> s, outcome |-> "ok"]
    ELSE LET w == Head(ws)
             known == GetMove(s, w.id)
         IN  IF known # {}
             THEN IF MoveValid(CHOOSE m \in known : TRUE)
                  THEN ApplyMoves(s, Tail(ws), block_id)
                  ELSE [store |-> s, outcome |-> "InvalidMoveError"]
             ELSE IF ParseFails(w.created_at)
                  THEN [store |-> s, outcome |-> "ValueError"]
                  ELSE IF MoveValid(NewMoveRow(w, block_id))
                       THEN ApplyMoves([s EXCEPT !.moves = @ \cup {NewMoveRow(w, block_id)}],
                                       Tail(ws), block_id)
                       ELSE [store |-> s, outcome |-> "InvalidMoveError"]

\* The served moves of a block as a list, by ascending id.
RECURSIVE MoveList(_)
MoveList(ws) ==
    IF ws = {} THEN <<>>
    ELSE LET w == CHOOSE x \in ws : \A y \in ws : x.id <= y.id
         IN  <<w>> \o MoveList(ws \ {w})

\* The Block built from a served block.
NewBlockRow(w) ==
    [id |-> w.id, creator |-> w.creator, prev_hash |-> w.prev_hash,
     difficulty |-> w.difficulty, root_hash |-> w.root_hash,
     created_at |-> ParseTime(w.created_at), suffix |-> w.suffix,
     hash |-> w.hash]

\* for new_block in response.json()['blocks']: ...
RECURSIVE ApplyBlocks(_, _)
ApplyBlocks(s, ws) ==
    IF ws = <<>> THEN [store |-> s, outcome |-> "ok"]
    ELSE LET w == Head(ws)
         IN  IF ParseFails(w.created_at)
             THEN [store |-> s, outcome |-> "ValueError"]
             ELSE LET r == ApplyMoves(s, MoveList(w.moves), w.id)
                  IN  IF r.outcome # "ok" THEN r
                      ELSE IF ~BlockValid(NewBlockRow(w))
                           THEN [store |-> r.store, outcome |-> "InvalidBlockError"]
                           ELSE ApplyBlocks([r.store EXCEPT !.blocks = @ \cup {NewBlockRow(w)}],
                                            Tail(ws))

KeepSession(committed, session) == session

\* session.rollback(): the store is what was last committed.
SessionRollback(committed, session) == committed

\* An exception that leaves sync without a commit: the transaction is
\* discarded with the session.
Uncommitted(committed, session) == committed

\* A stop rule that keeps the local chain only when it is strictly longer.
LocalIsLonger(tip, peer_tip) == tip # 0 /\ tip > peer_tip

\* if last_block and last_block.id >= node_last_block['id']: return True
LocalIsLongest(tip, peer_tip) == tip # 0 /\ tip >= peer_tip

\* Block.sync(node) on the store s against the chain the peer serves.
SyncRun(s, served) ==
    LET tip == TipId(s)
    IN  IF served = {}
        THEN [store |-> s, outcome |-> "nopeer", bp |-> 0, dropped |-> 0,
              detached |-> 0]
        ELSE IF LocalIsLongest(tip, PeerTipId(served))
        THEN [store |-> s, outcome |-> "longest", bp |-> 0, dropped |-> 0,
              detached |-> 0]
        ELSE LET bp == BranchPoint(s.blocks, served, tip)
             IN  IF bp < 0
                 THEN [store |-> s, outcome |-> "AttributeError", bp |-> 0,
                       dropped |-> 0, detached |-> 0]
                 ELSE LET r == ApplyBlocks(DeleteBranch(s, bp), PeerFrom(served, bp + 1))
                          dropped == Cardinality({b \in s.blocks : b.id > bp})
                          detached == Cardinality({m \in s.moves : m.block_id > bp})
                      IN  CASE r.outcome = "ok" ->
                                 [store |-> r.store, outcome |-> "ok", bp |-> bp,
                                  dropped |-> dropped, detached |-> detached]
                            [] r.outcome \in {"InvalidMoveError", "InvalidBlockError"} ->
                                 [store |-> SessionRollback(s, r.store),
                                  outcome |-> r.outcome, bp |-> bp,
                                  dropped |-> dropped, detached |-> detached]
                            [] OTHER ->
                                 [store |-> Uncommitted(s, r.store),
                                  outcome |-> r.outcome, bp |-> bp,
                                  dropped |-> dropped, detached |-> detached]

\* Whether two chains hold different blocks at some height.
Diverge(blocks, served) ==
    \E b \in blocks : \E w \in served : b.id = w.id /\ b.hash # w.hash

Returned == {"ok", "longest", "nopeer"}

\* The tip a peer serves is read by sync only when it is fetched, which is
\* when the peer's chain is the longer one.
Sync(n, p, defect) ==
    /\ n # p
    /\ defect # "none" => TipId(store[p]) > TipId(store[n])
    /\ LET served == Served(store[p], defect)
           r == SyncRun(store[n], served)
           honest == defect = "none" /\ r.outcome \in Returned
       IN  /\ store' = [store EXCEPT ![n] = r.store]
           /\ last' = [op |-> "sync", node |-> n, peer |-> p, defect |-> defect,
                       outcome |-> r.outcome, bp |-> r.bp, dropped |-> r.dropped,
                       detached |-> r.detached,
                       tie |-> /\ honest
                               /\ TipId(store[n]) = PeerTipId(served)
                               /\ Diverge(store[n].blocks, served),
                       after |-> IF /\ honest
                                    /\ last.op = "sync"
                                    /\ last.defect = "none"
                                    /\ last.outcome \in Returned
                                    /\ last.node = p
                                    /\ last.peer = n
                                 THEN IF last.tie THEN "tie" ELSE "differ"
                                 ELSE "no"]
    /\ got' = NoGot
    /\ UNCHANGED <<pending, mints, probe, cache, net, combat, trial>>

-----------------------------------------------------------------------------
(* Dice and the random stream of a move.                                   *)

\* A dice expression 'NdM+K'.
Dice(cnt, dice_type, plus) == [cnt |-> cnt, dice_type |-> dice_type, plus |-> plus]

\* Draws that take the first value of the stream instead of the last.
RECURSIVE RollFromHead(_, _, _)
RollFromHead(randoms, cnt, dice_type) ==
    IF cnt = 0 THEN [sum |-> 0, randoms |-> randoms, out |-> FALSE]
    ELSE IF randoms = <<>> THEN [sum |-> 0, randoms |-> randoms, out |-> TRUE]
    ELSE LET v == (randoms[1] % dice_type) + 1
             r == RollFromHead(Tail(randoms), cnt - 1, dice_type)
         IN  [sum |-> v + r.sum, randoms |-> r.randoms, out |-> r.out]

\* The draws of Move.roll: each pops the last value of the stream; `out`
\* stands for OutOfRandomError.
RECURSIVE RollDice(_, _, _)
RollDice(randoms, cnt, dice_type) ==
    IF cnt = 0 THEN [sum |-> 0, randoms |-> randoms, out |-> FALSE]
    ELSE IF randoms = <<>> THEN [sum |-> 0, randoms |-> randoms, out |-> TRUE]
    ELSE LET v == (randoms[Len(randoms)] % dice_type) + 1
             r == RollDice(SubSeq(randoms, 1, Len(randoms) - 1), cnt - 1, dice_type)
         IN  [sum |-> v + r.sum, randoms |-> r.randoms, out |-> r.out]

\* Move.roll(randoms, dice), combined.
roll(randoms, dice) ==
    LET r == RollDice(randoms, dice.cnt, dice.dice_type)
    IN  [value |-> r.sum + dice.plus, randoms |-> r.randoms, out |-> r.out]

\* The length of a SHA-256 hex digest.
HashLen == 64

\* [ord(a) ^ ord(b) for a, b in zip(block.hash, move.id)]: one value per
\* character, fixed by the block and the move.
HashXor(hash, id) == [i \in 1 .. HashLen |-> (5 * hash[2][1] + 3 * id + i) % 16]

\* int(x / 4) of Python: the float quotient truncated toward zero.
IntQuarter(x) == IF x >= 0 THEN x \div 4 ELSE -((-x) \div 4)

\* result[k:] of Python, for a start of either sign.
SliceFrom(seq, k) ==
    LET start == IF k >= 0 THEN Min(k, Len(seq)) ELSE Max(Len(seq) + k, 0)
    IN  SubSeq(seq, start + 1, Len(seq))

\* Move.get_randoms: empty for a move that is in no block.
get_randoms(s, m) ==
    IF GetBlock(s, m.block_id) = {} THEN <<>>
    ELSE LET block == CHOOSE b \in GetBlock(s, m.block_id) : TRUE
         IN  SliceFrom(HashXor(block.hash, m.id), IntQuarter(block.difficulty))

-----------------------------------------------------------------------------
(* Avatars and the execution of moves.                                     *)

\* Novice.max_hp
max_hp(avatar) == avatar.constitution + 6

\* Novice.damage
NoviceDamage == Dice(1, 6, 0)

\* Avatar.modifier of an ability score.
modifier(status) ==
    IF status \in {1, 2, 3} THEN -3
    ELSE IF status \in {4, 5} THEN -2
    ELSE IF status \in {6, 7, 8} THEN -1
    ELSE IF status \in {9, 10, 11, 12} THEN 0
    ELSE IF status \in {13, 14, 15} THEN 1
    ELSE IF status \in {16, 17} THEN 2
    ELSE IF status = 18 THEN 3
    ELSE 0

\* Avatar.get_item on the items of an avatar.
get_item(items, item) ==
    IF item \in DOMAIN items THEN [items EXCEPT ![item] = @ + 1]
    ELSE items @@ (item :> 1)

\* What execute returns: the avatar, and the exception raised, if any.
Done(avatar) == [avatar |-> avatar, error |-> "none", result |-> "success"]

Raised(avatar, error) == [avatar |-> avatar, error |-> error, result |-> ""]

\* CreateNovice.execute
CreateNovice(m, avatar) ==
    LET d == MoveCatalog(m.body).details
        gold == IF avatar # NoAvatar THEN avatar.items["GOLD"] ELSE 0
    IN  Done([class |-> "Novice", user |-> m.user,
              strength |-> d.strength, dexterity |-> d.dexterity,
              constitution |-> d.constitution, intelligence |-> d.intelligence,
              wisdom |-> d.wisdom, charisma |-> d.charisma,
              hp |-> d.constitution + 6, xp |-> 0, lv |-> 1,
              items |-> [i \in {"GOLD"} |-> gold]])

\* Sleep.execute
Sleep(m, avatar) == Done([avatar EXCEPT !.hp = max_hp(avatar)])

\* Say.execute
Say(m, avatar) == Done(avatar)

\* A level-up that is granted whatever the xp of the avatar.
LevelUpUnpaid(m, avatar) ==
    LET status == MoveCatalog(m.body).details.new_status
        paid == [avatar EXCEPT !.xp = @ - (avatar.lv + 7), !.lv = @ + 1]
        raised == [paid EXCEPT ![status] = @ + 1]
    IN  IF status = "constitution"
        THEN Done([raised EXCEPT !.hp = @ + 1])
        ELSE Done(raised)

\* LevelUp.execute
LevelUp(m, avatar) ==
    LET status == MoveCatalog(m.body).details.new_status
        paid == [avatar EXCEPT !.xp = @ - (avatar.lv + 7), !.lv = @ + 1]
        raised == [paid EXCEPT ![status] = @ + 1]
    IN  IF avatar.xp < avatar.lv + 7
        THEN [avatar |-> avatar, error |-> "none", result |-> "failed"]
        ELSE IF status = "constitution"
             THEN Done([raised EXCEPT !.hp = @ + 1])
             ELSE Done(raised)

\* Send.execute
Send(m, avatar) ==
    LET d == MoveCatalog(m.body).details
    IN  IF \/ d.item_name \notin DOMAIN avatar.items
           \/ avatar.items[d.item_name] - d.amount < 0
        THEN [avatar |-> avatar, error |-> "none", result |-> "fail"]
        ELSE Done([avatar EXCEPT !.items[d.item_name] = @ - d.amount])

\* for i in range(amount): receiver.get_item(item_name)
RECURSIVE GetItems(_, _, _)
GetItems(items, item, amount) ==
    IF amount <= 0 THEN items
    ELSE GetItems(get_item(items, item), item, amount - 1)

\* Send.receive
Receive(m, receiver) ==
    LET d == MoveCatalog(m.body).details
    IN  Done([receiver EXCEPT !.items = GetItems(@, d.item_name, d.amount)])

\* Combine.recipes and Combine.success_roll, in the order of the dict.
Recipes ==
    << [result |-> "OYKD", recipe |-> {"RICE", "EGGS", "CHKN"}, success_roll |-> Dice(1, 1, 0)],
       [result |-> "CBNR", recipe |-> {"WHET", "EGGS", "MEAT"}, success_roll |-> Dice(1, 1, 0)],
       [result |-> "STKD", recipe |-> {"RICE", "RKST", "MEAT"}, success_roll |-> Dice(1, 1, 0)],
       [result |-> "CHKR", recipe |-> {"RICE", "RKST", "CHKN"}, success_roll |-> Dice(1, 1, 0)],
       [result |-> "STEK", recipe |-> {"MEAT", "RKST", "OLIV"}, success_roll |-> Dice(1, 1, 0)],
       [result |-> "STCB", recipe |-> {"STEK", "WHET", "EGGS"}, success_roll |-> Dice(1, 1, 0)],
       [result |-> "FRCH", recipe |-> {"CHKN", "RKST", "OLIV"}, success_roll |-> Dice(1, 1, 0)],
       [result |-> "FSWD", recipe |-> {"LSWD", "FLNT", "OLIV"}, success_roll |-> Dice(1, 2, 0)],
       [result |-> "FSW1", recipe |-> {"FSWD", "FSWD", "FSWD"}, success_roll |-> Dice(1, 2, 0)],
       [result |-> "FSW2", recipe |-> {"FSW1", "FSW1", "FSW1"}, success_roll |-> Dice(1, 4, 0)],
       [result |-> "FSW3", recipe |-> {"FSW2", "FSW2", "FSW2"}, success_roll |-> Dice(1, 6, 0)] >>

\* avatar.items[item] -= 1 for each of the items in turn; a KeyError when
\* the avatar has no entry for one of them.
RECURSIVE TakeItems(_, _)
TakeItems(items, names) ==
    IF names = <<>> THEN [items |-> items, error |-> "none"]
    ELSE IF Head(names) \notin DOMAIN items
         THEN [items |-> items, error |-> "KeyError"]
         ELSE TakeItems([items EXCEPT ![Head(names)] = @ - 1], Tail(names))

\* Combine.execute
Combine(s, m, avatar) ==
    LET d == MoveCatalog(m.body).details
        matches == {i \in 1 .. Len(Recipes) :
                       Recipes[i].recipe = {d.item1, d.item2, d.item3}}
    IN  IF matches = {}
        THEN [avatar |-> avatar, error |-> "none", result |-> "failure"]
        ELSE LET r == Recipes[CHOOSE i \in matches : \A j \in matches : i <= j]
                 taken == TakeItems(avatar.items, <<d.item1, d.item2, d.item3>>)
                 rolled == roll(get_randoms(s, m), r.success_roll)
                 left == [avatar EXCEPT !.items = taken.items]
             IN  IF taken.error # "none" THEN Raised(left, taken.error)
                 ELSE IF rolled.out THEN Raised(left, "OutOfRandomError")
                 ELSE IF rolled.value = 1
                      THEN Done([left EXCEPT !.items = get_item(@, r.result)])
                      ELSE [avatar |-> left, error |-> "none", result |-> "failure"]

-----------------------------------------------------------------------------
(* HackAndSlash.execute.                                                   *)

\* data/monsters.csv: hp, piercing, armor, damage dice and ten rewards.
Monsters ==
    << [hp |-> 3, piercing |-> 0, armor |-> 1, damage |-> Dice(1, 4, 0),
        reward |-> [i \in 1 .. 10 |-> IF i <= 5 THEN "MEAT" ELSE ""]],
       [hp |-> 6, piercing |-> 1, armor |-> 0, damage |-> Dice(1, 6, 0),
        reward |-> [i \in 1 .. 10 |-> IF i <= 2 THEN "BNDG" ELSE ""]] >>

\* The bandage step of a round; `out` when a draw found the stream empty.
Bandage(avatar, randoms) ==
    IF /\ 5 * avatar.hp <= max_hp(avatar)
       /\ "BNDG" \in DOMAIN avatar.items
       /\ avatar.items["BNDG"] > 0
    THEN LET r == roll(randoms, Dice(2, 6, 0))
         IN  IF r.out THEN [avatar |-> avatar, randoms |-> r.randoms, out |-> TRUE]
             ELSE [avatar |-> IF r.value >= 7
                              THEN [avatar EXCEPT !.hp = @ + 4, !.items["BNDG"] = @ - 1]
                              ELSE [avatar EXCEPT !.items["BNDG"] = @ - 1],
                   randoms |-> r.randoms, out |-> FALSE]
    ELSE [avatar |-> avatar, randoms |-> randoms, out |-> FALSE]

\* An attack step that puts the attack roll back on the stream when the
\* modified roll is below 2.
ExchangeKeepingMiss(avatar, monster, monster_hp, randoms) ==
    LET r == roll(randoms, Dice(2, 6, 0))
        rolled == r.value + modifier(avatar.strength)
        hit == roll(r.randoms, NoviceDamage)
        hurt == roll(r.randoms, monster.damage)
        stop == [avatar |-> avatar, monster_hp |-> monster_hp,
                 randoms |-> <<>>, out |-> TRUE]
    IN  IF r.out THEN stop
        ELSE IF rolled >= 7
        THEN IF hit.out THEN stop
             ELSE [avatar |-> avatar,
                   monster_hp |-> monster_hp - Max(hit.value - monster.armor, 0),
                   randoms |-> hit.randoms, out |-> FALSE]
        ELSE IF rolled \in 2 .. 9
        THEN IF hurt.out THEN stop
             ELSE [avatar |-> [avatar EXCEPT !.hp = @ - hurt.value,
                                             !.xp = IF rolled <= 6 THEN @ + 1 ELSE @],
                   monster_hp |-> monster_hp,
                   randoms |-> hurt.randoms, out |-> FALSE]
        ELSE [avatar |-> avatar, monster_hp |-> monster_hp,
              randoms |-> randoms, out |-> FALSE]

\* The attack step of a round.
Exchange(avatar, monster, monster_hp, randoms) ==
    LET r == roll(randoms, Dice(2, 6, 0))
        rolled == r.value + modifier(avatar.strength)
        hit == roll(r.randoms, NoviceDamage)
        hurt == roll(r.randoms, monster.damage)
        stop == [avatar |-> avatar, monster_hp |-> monster_hp,
                 randoms |-> <<>>, out |-> TRUE]
    IN  IF r.out THEN stop
        ELSE IF rolled >= 7
        THEN IF hit.out THEN stop
             ELSE [avatar |-> avatar,
                   monster_hp |-> monster_hp - Max(hit.value - monster.armor, 0),
                   randoms |-> hit.randoms, out |-> FALSE]
        ELSE IF rolled \in 2 .. 9
        THEN IF hurt.out THEN stop
             ELSE [avatar |-> [avatar EXCEPT !.hp = @ - hurt.value,
                                             !.xp = IF rolled <= 6 THEN @ + 1 ELSE @],
                   monster_hp |-> monster_hp,
                   randoms |-> hurt.randoms, out |-> FALSE]
        ELSE [avatar |-> avatar, monster_hp |-> monster_hp,
              randoms |-> r.randoms, out |-> FALSE]

\* while True: ... of HackAndSlash.execute.
RECURSIVE Fight(_, _, _, _)
Fight(avatar, monster, monster_hp, randoms) ==
    LET b == Bandage(avatar, randoms)
        e == Exchange(b.avatar, monster, monster_hp, b.randoms)
        w == roll(e.randoms, Dice(1, 10, 0))
        item == monster.reward[w.value]
    IN  IF b.out THEN [avatar |-> b.avatar, error |-> "none", result |-> "finish"]
        ELSE IF e.out THEN [avatar |-> e.avatar, error |-> "none", result |-> "finish"]
        ELSE IF e.monster_hp <= 0
        THEN IF w.out THEN [avatar |-> e.avatar, error |-> "none", result |-> "finish"]
             ELSE [avatar |-> IF item # ""
                              THEN [e.avatar EXCEPT !.items = get_item(@, item)]
                              ELSE e.avatar,
                   error |-> "none", result |-> "win"]
        ELSE IF e.avatar.hp <= 0
        THEN [avatar |-> e.avatar, error |-> "none", result |-> "lose"]
        ELSE Fight(e.avatar, monster, e.monster_hp, e.randoms)

\* HackAndSlash.execute on an avatar and the stream of the move: the monster
\* is drawn with randoms.pop(), an IndexError on an empty stream.
HackAndSlash(avatar, randoms) ==
    IF randoms = <<>> THEN Raised(avatar, "IndexError")
    ELSE LET monster == Monsters[(randoms[Len(randoms)] % Len(Monsters)) + 1]
         IN  Fight(avatar, monster, monster.hp, SubSeq(randoms, 1, Len(randoms) - 1))

-----------------------------------------------------------------------------
(* Avatar.get: the replay of the moves of a user.                          *)

\* move.execute(avatar), by the class of the move; Sell and Buy define no
\* execute, calling it is an AttributeError.
Execute(s, m, avatar) ==
    LET name == MoveCatalog(m.body).name
    IN  CASE name = "create_novice" -> CreateNovice(m, avatar)
          [] name = "hack_and_slash" -> HackAndSlash(avatar, get_randoms(s, m))
          [] name = "sleep" -> Sleep(m, avatar)
          [] name = "level_up" -> LevelUp(m, avatar)
          [] name = "say" -> Say(m, avatar)
          [] name = "send" -> Send(m, avatar)
          [] name = "combine" -> Combine(s, m, avatar)
          [] OTHER -> Raised(avatar, "AttributeError")

\* The moves with a MoveDetail row key='receiver', value=user_addr.
Addressed(s, user_addr) ==
    {m \in s.moves : /\ "receiver" \in DOMAIN MoveCatalog(m.body).details
                     /\ MoveCatalog(m.body).details.receiver = user_addr}

\* The create_* moves of the user in a block up to block_id.
CreateMoves(s, user_addr, block_id) ==
    {m \in s.moves : /\ m.user = user_addr
                     /\ m.block_id # NoBlock
                     /\ m.block_id <= block_id
                     /\ MoveCatalog(m.body).name = "create_novice"}

\* The rows of the `moves` query, given the create move.
ReplayRows(s, user_addr, block_id, create_move) ==
    {m \in s.moves : /\ m.user = user_addr \/ m \in Addressed(s, user_addr)
                     /\ m.block_id # NoBlock
                     /\ m.block_id >= create_move.block_id
                     /\ m.block_id <= block_id}

\* The orders in which a query without ORDER BY may return a set of rows.
RECURSIVE Orders(_)
Orders(rows) ==
    IF rows = {} THEN {<<>>}
    ELSE UNION {{<<x>> \o o : o \in Orders(rows \ {x})} : x \in rows}

\* if type(move) == Send and move.details['receiver'] == user_addr:
\* the receive effect of a row whose own effect is `own`.
Received(user_addr, move, own) ==
    IF /\ own.error = "none"
       /\ MoveCatalog(move.body).name = "send"
       /\ MoveCatalog(move.body).details.receiver = user_addr
    THEN Receive(move, own.avatar)
    ELSE own

\* One turn of the loop of Avatar.get.
ReplayMove(s, user_addr, move, avatar) ==
    Received(user_addr, move,
             IF move.user = user_addr THEN Execute(s, move, avatar)
             ELSE Done(avatar))

\* The rest of the loop, the turns so far having ended as `step`: an
\* exception ends it.
RECURSIVE ReplayFrom(_, _, _, _)
ReplayFrom(s, user_addr, step, order) ==
    IF step.error # "none" \/ order = <<>> THEN step
    ELSE ReplayFrom(s, user_addr,
                    ReplayMove(s, user_addr, Head(order), step.avatar),
                    Tail(order))

\* for move in moves: ... of Avatar.get.
ReplayMoves(s, user_addr, avatar, order) ==
    ReplayFrom(s, user_addr, Done(avatar), order)

\* A reward credited for every block of the chain, whoever created it.
RewardForAllBlocks(s, user_addr, block_id) ==
    8 * Cardinality({b \in s.blocks : b.id <= block_id})

\* query(Block).filter_by(creator=user_addr).filter(Block.id <= block_id)
\*     .count() * 8
Reward(s, user_addr, block_id) ==
    8 * Cardinality({b \in s.blocks : b.creator = user_addr /\ b.id <= block_id})

\* The create move Avatar.get starts from: the latest one, as a set.
CreateMove(s, user_addr, block_id) ==
    {m \in CreateMoves(s, user_addr, block_id) :
        \A q \in CreateMoves(s, user_addr, block_id) : q.block_id <= m.block_id}

\* The orders in which Avatar.get may be handed its rows.
AvatarOrders(s, user_addr, block_id) ==
    IF CreateMove(s, user_addr, block_id) = {} THEN {<<>>}
    ELSE Orders(ReplayRows(s, user_addr, block_id,
                           CHOOSE m \in CreateMove(s, user_addr, block_id) : TRUE))

\* The body of Avatar.get(user_addr, block_id), the rows coming in `order`.
AvatarGet(s, user_addr, block_id, order) ==
    IF CreateMove(s, user_addr, block_id) = {} THEN Done(NoAvatar)
    ELSE LET create_move == CHOOSE m \in CreateMove(s, user_addr, block_id) : TRUE
             first == CreateNovice(create_move, NoAvatar).avatar
             paid == [first EXCEPT !.items["GOLD"] =
                         @ + Reward(s, user_addr, block_id)]
         IN  ReplayMoves(s, user_addr, paid, order)

\* A memoized value of Avatar.get at node n, if the cache holds one.
Memoized(n, user_addr, block_id) ==
    {e \in cache[n] : e.key = <<user_addr, block_id>>}

\* Avatar.get(user_addr, block_id) at node n, under @cache.memoize() when
\* the cache is configured to hold values: a held value is returned without
\* running the body (it may also have expired, and then the body runs); a
\* value that is not None is held after the body has run.  The rows come
\* in any order.
GetAvatar(n, user_addr, block_id, caching) ==
    /\ \/ /\ caching
          /\ \E e \in Memoized(n, user_addr, block_id) :
                got' = [op |-> "get", node |-> n, user |-> user_addr,
                        block_id |-> block_id, order |-> <<>>, hit |-> TRUE,
                        avatar |-> e.value, error |-> "none"]
          /\ cache' = cache
       \/ \E order \in AvatarOrders(store[n], user_addr, block_id) :
             \E r \in {AvatarGet(store[n], user_addr, block_id, order)} :
                 /\ got' = [op |-> "get", node |-> n, user |-> user_addr,
                            block_id |-> block_id, order |-> order,
                            hit |-> FALSE, avatar |-> r.avatar, error |-> r.error]
                 /\ cache' =
                       IF caching /\ r.error = "none" /\ r.avatar # NoAvatar
                       THEN [cache EXCEPT ![n] =
                               (@ \ Memoized(n, user_addr, block_id))
                               \cup {[key |-> <<user_addr, block_id>>,
                                      value |-> r.avatar]}]
                       ELSE cache
    /\ UNCHANGED <<store, pending, mints, last, probe, net, combat, trial>>

-----------------------------------------------------------------------------
(* The specification of two nodes that mint, sync and receive moves.       *)

\* datetime.now() at minting, as the time since the tip was created.
SyncSteps == {10000001}

NoProbe == [pc |-> "off", tip |-> 0, peer |-> 0, common |-> 0, bp |-> 0]

Init ==
    /\ store = [n \in Nodes |-> EmptyStore]
    /\ pending = [n \in Nodes |-> <<>>]
    /\ mints = 0
    /\ last = NoEvent
    /\ cache = [n \in Nodes |-> {}]
    /\ got = NoGot
    /\ net = NoNet
    /\ combat = NoCombat
    /\ trial = NoTrial
    /\ probe = NoProbe

Next ==
    \/ \E n \in Nodes : \E k \in MoveIds : NewMove(n, k)
    \/ \E n \in Nodes : \E k \in MoveIds : GossipMove(n, k)
    \/ \E n \in Nodes : \E dt \in SyncSteps : MintStart(n, dt, MaxMints)
    \/ \E n \in Nodes : MintFinish(n)
    \/ \E n \in Nodes : \E p \in Nodes : \E defect \in Defects : Sync(n, p, defect)

Spec == Init /\ [][Next]_vars

\* The same nodes with peers that also serve a tip whose prev_hash is forged.
NextUntrusted ==
    \/ Next
    \/ \E n \in Nodes : \E p \in Nodes : Sync(n, p, "badprev")

SpecUntrusted == Init /\ [][NextUntrusted]_vars

-----------------------------------------------------------------------------
(* The specification of one miner whose blocks come at varying intervals.  *)

\* datetime.now() at minting, as the time since the tip was created: at and
\* just past the two thresholds of the difficulty adjustment.
MintSteps == {5000000, 5000001, 15000000, 15000001}

NextMint ==
    \/ \E dt \in MintSteps : MintStart("A", dt, MaxMintHeight)
    \/ MintFinish("A")

SpecMint == Init /\ [][NextMint]_vars

-----------------------------------------------------------------------------
(* The specification of one miner whose first blocks come at intervals     *)
(* around the thresholds and whose later blocks come at a steady pace, on  *)
(* a chain long enough for the window of ten blocks to leave genesis.      *)

\* number of blocks whose interval is drawn from MintSteps
MaxEdgeBlocks == 3
\* number of create_block calls in a run of SpecDifficulty
MaxChain == 13

\* datetime.now() at minting, as the time since the tip was created.
SteadySteps == {4000000}

StepsAt(h) == IF h < MaxEdgeBlocks THEN MintSteps ELSE SteadySteps

NextDifficultyRun ==
    \/ \E dt \in StepsAt(TipId(store["A"])) : MintStart("A", dt, MaxChain)
    \/ MintFinish("A")

SpecDifficulty == Init /\ [][NextDifficultyRun]_vars

-----------------------------------------------------------------------------
(* The specification of one store on which two users make moves, one of   *)
(* them mints, and avatars are reconstructed without a cache.              *)

\* number of moves of the catalogue that the users make
NumReplayMoves == 5
\* number of create_block calls in a run of SpecReplay
MaxReplayBlocks == 2

\* datetime.now() at minting, as the time since the tip was created.
ReplaySteps == {10000000}

Addresses == {get_address(n) : n \in Nodes}

NextReplay ==
    \/ \E k \in 1 .. NumReplayMoves : NewMove("A", k)
    \/ \E dt \in ReplaySteps : MintStart("A", dt, MaxReplayBlocks)
    \/ MintFinish("A")
    \/ \E user_addr \in Addresses : \E block_id \in 1 .. MaxReplayBlocks :
          GetAvatar("A", user_addr, block_id, FALSE)

SpecReplay == Init /\ [][NextReplay]_vars

-----------------------------------------------------------------------------
(* The specification of one store on which a user creates an avatar,       *)
(* another sends gold to it, and either of them mints.                     *)

\* number of moves of the catalogue that the users make
NumRewardMoves == 2
\* number of create_block calls in a run of SpecReward
MaxRewardBlocks == 3

NextReward ==
    \/ \E k \in 1 .. NumRewardMoves : NewMove("A", k)
    \/ \E key \in Nodes : \E dt \in ReplaySteps : MintAs("A", key, dt, MaxRewardBlocks)
    \/ MintFinish("A")
    \/ \E user_addr \in Addresses : \E block_id \in 0 .. MaxRewardBlocks :
          GetAvatar("A", user_addr, block_id, FALSE)

SpecReward == Init /\ [][NextReward]_vars

-----------------------------------------------------------------------------
(* The specification of two nodes that mint and sync, and whose avatars    *)
(* are reconstructed through a cache that holds values.                    *)

\* highest block id passed to Avatar.get
MaxCeiling == 1

NextCache ==
    \/ \E n \in Nodes : \E k \in MoveIds : NewMove(n, k)
    \/ \E n \in Nodes : \E dt \in SyncSteps : MintStart(n, dt, MaxMints)
    \/ \E n \in Nodes : MintFinish(n)
    \/ \E n \in Nodes : \E p \in Nodes : Sync(n, p, "none")
    \/ \E n \in Nodes : \E user_addr \in Addresses : \E block_id \in 1 .. MaxCeiling :
          GetAvatar(n, user_addr, block_id, TRUE)

SpecCache == Init /\ [][NextCache]_vars

-----------------------------------------------------------------------------
(* The specification of one combat: a novice, wounded or not, with or      *)
(* without a bandage, executes a hack_and_slash move whose block gives it  *)
(* a random stream of any length up to MaxStream.                          *)

\* length of the longest random stream
MaxStream == 6

\* The values of the stream: one that rolls the lowest face of every dice
\* and picks the first monster, one that rolls high and picks the second.
StreamValues == {0, 5}

Streams == UNION {[1 .. len -> StreamValues] : len \in 0 .. MaxStream}

\* The novice of the first move of the catalogue, with the given hp and
\* number of bandages.
Fighter(hp, bandages) ==
    LET novice == CreateNovice(SignedMove(1), NoAvatar).avatar
    IN  [novice EXCEPT !.hp = hp, !.items = ("GOLD" :> 8) @@ ("BNDG" :> bandages)]

InitCombat ==
    /\ store = [n \in Nodes |-> EmptyStore]
    /\ pending = [n \in Nodes |-> <<>>]
    /\ mints = 0
    /\ last = NoEvent
    /\ probe = NoProbe
    /\ cache = [n \in Nodes |-> {}]
    /\ got = NoGot
    /\ net = NoNet
    /\ trial = NoTrial
    /\ \E stream \in Streams : \E difficulty \in {0, 4} :
       \E hp \in {1, 15} : \E bandages \in {0, 1} :
          combat = [pc |-> "ready", avatar |-> Fighter(hp, bandages),
                    stream |-> stream, difficulty |-> difficulty,
                    outcome |-> Raised(NoAvatar, "none")]

\* move.execute(avatar) of a hack_and_slash move in a block of the given
\* difficulty, the XOR of the hashes being `stream`.
HackAndSlashExecute ==
    /\ combat.pc = "ready"
    /\ combat' = [combat EXCEPT
                    !.pc = "done",
                    !.outcome = HackAndSlash(combat.avatar,
                                    SliceFrom(combat.stream,
                                              IntQuarter(combat.difficulty)))]
    /\ UNCHANGED <<store, pending, mints, last, probe, cache, got, net, trial>>

SpecCombat == InitCombat /\ [][HackAndSlashExecute]_vars

-----------------------------------------------------------------------------
(* Node.broadcast: one broadcast over the nodes a node knows, some of      *)
(* which refuse the connection.                                            *)

\* number of node URLs
NumUrls == 3

\* The URLs of nodes, and the absence of a node (sent_node or my_node None).
Urls == 1 .. NumUrls

NoNode == 0

\* A test that skips no node.
IsNobody(sent_node, url) == FALSE

\* if sent_node and sent_node.url == node.url: continue
IsSender(sent_node, url) == sent_node # NoNode /\ sent_node = url

\* A post after which no timestamp is set.
Untouched(connected, url) == connected

\* node.last_connected_at = datetime.datetime.now(); session.add(node):
\* the nodes whose timestamp this broadcast has set.
Touched(connected, url) == connected \cup {url}

\* The posts made to a URL so far, refused ones included.
Posts(log, url) == Cardinality({i \in 1 .. Len(log) : log[i].url = url})

InitBroadcast ==
    /\ store = [n \in Nodes |-> EmptyStore]
    /\ pending = [n \in Nodes |-> <<>>]
    /\ mints = 0
    /\ last = NoEvent
    /\ probe = NoProbe
    /\ cache = [n \in Nodes |-> {}]
    /\ got = NoGot
    /\ combat = NoCombat
    /\ trial = NoTrial
    /\ \E known \in SUBSET Urls : \E down \in SUBSET known :
       \E sent_node \in Urls \cup {NoNode} : \E my_node \in {NoNode, 1} :
          net = [pc |-> "loop", known |-> known, down |-> down,
                 sent_node |-> sent_node, my_node |-> my_node,
                 todo |-> known, log |-> <<>>, connected |-> {},
                 committed |-> FALSE, result |-> FALSE]

\* One turn of `for node in session.query(cls)` on the sender: continue.
BroadcastSkip(url) ==
    /\ net.pc = "loop"
    /\ url \in net.todo
    /\ IsSender(net.sent_node, url)
    /\ net' = [net EXCEPT !.todo = @ \ {url}]
    /\ UNCHANGED <<store, pending, mints, last, probe, cache, got, combat, trial>>

\* One turn on a node that answers: the object is posted, with sent_node
\* set to my_node's URL when my_node is given, and last_connected_at is set.
BroadcastPost(url) ==
    /\ net.pc = "loop"
    /\ url \in net.todo
    /\ ~IsSender(net.sent_node, url)
    /\ url \notin net.down
    /\ net' = [net EXCEPT !.todo = @ \ {url},
                          !.log = Append(@, [url |-> url, sent_node |-> net.my_node,
                                             posted |-> TRUE]),
                          !.connected = Touched(@, url)]
    /\ UNCHANGED <<store, pending, mints, last, probe, cache, got, combat, trial>>

\* One turn on a node that refuses the connection: ConnectionError, continue.
BroadcastRefused(url) ==
    /\ net.pc = "loop"
    /\ url \in net.todo
    /\ ~IsSender(net.sent_node, url)
    /\ url \in net.down
    /\ net' = [net EXCEPT !.todo = @ \ {url},
                          !.log = Append(@, [url |-> url, sent_node |-> net.my_node,
                                             posted |-> FALSE])]
    /\ UNCHANGED <<store, pending, mints, last, probe, cache, got, combat, trial>>

\* session.commit(); return True
BroadcastReturn ==
    /\ net.pc = "loop"
    /\ net.todo = {}
    /\ net' = [net EXCEPT !.pc = "done", !.committed = TRUE, !.result = TRUE]
    /\ UNCHANGED <<store, pending, mints, last, probe, cache, got, combat, trial>>

NextBroadcast ==
    \/ \E url \in Urls : BroadcastSkip(url)
    \/ \E url \in Urls : BroadcastPost(url)
    \/ \E url \in Urls : BroadcastRefused(url)
    \/ BroadcastReturn

SpecBroadcast == InitBroadcast /\ [][NextBroadcast]_vars

-----------------------------------------------------------------------------
(* The specification of two nodes that mint and sync, one of whose users   *)
(* makes a move under a name that no class of moves carries.               *)

\* The polymorphic identities of the classes of moves.
RecognizedNames ==
    {"create_novice", "hack_and_slash", "sleep", "level_up", "say", "send",
     "combine", "sell", "buy"}

\* The move of the catalogue whose name is none of them.
UnknownNameMove == 11

NextNames ==
    \/ \E n \in Nodes : NewMove(n, UnknownNameMove)
    \/ \E n \in Nodes : \E dt \in SyncSteps : MintStart(n, dt, MaxMints)
    \/ \E n \in Nodes : MintFinish(n)
    \/ \E n \in Nodes : \E p \in Nodes : Sync(n, p, "none")

SpecNames == Init /\ [][NextNames]_vars

-----------------------------------------------------------------------------
(* The specification of one level_up move executed on a novice of any xp   *)
(* and level, wounded or not, for each of the six abilities.               *)

\* highest xp of the avatar
MaxXp == 12
\* highest level of the avatar
MaxLevel == 3

Abilities ==
    {"strength", "dexterity", "constitution", "intelligence", "wisdom", "charisma"}

\* The level_up moves of the catalogue that name an ability.
AbilityMoves ==
    {k \in 1 .. 17 : /\ MoveCatalog(k).name = "level_up"
                     /\ MoveCatalog(k).details.new_status \in Abilities}

\* The novice of the first move of the catalogue, with the given xp, level
\* and hp.
Veteran(xp, lv, hp) ==
    [CreateNovice(SignedMove(1), NoAvatar).avatar EXCEPT !.xp = xp, !.lv = lv, !.hp = hp]

InitLevelUp ==
    /\ store = [n \in Nodes |-> EmptyStore]
    /\ pending = [n \in Nodes |-> <<>>]
    /\ mints = 0
    /\ last = NoEvent
    /\ probe = NoProbe
    /\ cache = [n \in Nodes |-> {}]
    /\ got = NoGot
    /\ net = NoNet
    /\ combat = NoCombat
    /\ \E k \in AbilityMoves : \E xp \in 0 .. MaxXp : \E lv \in 1 .. MaxLevel :
       \E hp \in {1, 15} :
          trial = [pc |-> "ready", op |-> "level_up", move |-> k,
                   avatar |-> Veteran(xp, lv, hp),
                   outcome |-> Raised(NoAvatar, "none")]

\* move.execute(avatar) of the level_up move.
LevelUpExecute ==
    /\ trial.pc = "ready"
    /\ trial.op = "level_up"
    /\ trial' = [trial EXCEPT !.pc = "done",
                              !.outcome = LevelUp(SignedMove(trial.move), trial.avatar)]
    /\ UNCHANGED <<store, pending, mints, last, probe, cache, got, net, combat>>

SpecLevelUp == InitLevelUp /\ [][LevelUpExecute]_vars

-----------------------------------------------------------------------------
(* The specification of one call of Move.roll, on a stream of any length   *)
(* up to MaxRollStream and a dice expression of up to MaxDiceCount dice.   *)

\* length of the longest stream passed to roll
MaxRollStream == 3
\* highest number of dice of a dice expression
MaxDiceCount == 3

\* The values of the streams: those of the doctest.
RollValues == {1, 3, 7}

RollStreams == UNION {[1 .. len -> RollValues] : len \in 0 .. MaxRollStream}

\* The dice expressions 'NdM' and 'NdM+K'.
DiceExpressions ==
    {Dice(cnt, dice_type, plus) :
        cnt \in 1 .. MaxDiceCount, dice_type \in {2, 6}, plus \in {0, 1}}

InitRoll ==
    /\ store = [n \in Nodes |-> EmptyStore]
    /\ pending = [n \in Nodes |-> <<>>]
    /\ mints = 0
    /\ last = NoEvent
    /\ probe = NoProbe
    /\ cache = [n \in Nodes |-> {}]
    /\ got = NoGot
    /\ net = NoNet
    /\ combat = NoCombat
    /\ \E randoms \in RollStreams : \E dice \in DiceExpressions :
          trial = [pc |-> "ready", op |-> "roll", randoms |-> randoms,
                   dice |-> dice,
                   outcome |-> [value |-> 0, randoms |-> <<>>, out |-> FALSE]]

\* self.roll(randoms, dice)
RollExecute ==
    /\ trial.pc = "ready"
    /\ trial.op = "roll"
    /\ trial' = [trial EXCEPT !.pc = "done",
                              !.outcome = roll(trial.randoms, trial.dice)]
    /\ UNCHANGED <<store, pending, mints, last, probe, cache, got, net, combat>>

SpecRoll == InitRoll /\ [][RollExecute]_vars

-----------------------------------------------------------------------------
(* The specification of one store on which two users create their avatars  *)
(* and one sends the other an item, and whose moves are confirmed in up to *)
(* MaxTransferBlocks blocks.                                               *)

\* number of create_block calls in a run of SpecTransfer
MaxTransferBlocks == 2

\* The moves of the catalogue that the users make: both create a novice,
\* and each sends items to the other.
TransferMoves ==
    {k \in 1 .. 19 :
        \/ MoveCatalog(k).name = "create_novice"
        \/ MoveCatalog(k).name = "send"}

NextTransfer ==
    \/ \E k \in TransferMoves : NewMove("A", k)
    \/ \E dt \in ReplaySteps : MintStart("A", dt, MaxTransferBlocks)
    \/ MintFinish("A")

SpecTransfer == Init /\ [][NextTransfer]_vars

-----------------------------------------------------------------------------
(* The specification of the combat loop, one iteration at a time: a        *)
(* novice, weak or strong, wounded or not, with or without a bandage,      *)
(* executes a hack_and_slash move on a random stream of any length up to   *)
(* MaxStream.                                                              *)

\* The rounds a run may take; the loop of the code has no such limit.
MaxRounds == MaxStream + 1

\* The fighter with another strength.
Brawler(strength, hp, bandages) ==
    [Fighter(hp, bandages) EXCEPT !.strength = strength]

InitRounds ==
    /\ store = [n \in Nodes |-> EmptyStore]
    /\ pending = [n \in Nodes |-> <<>>]
    /\ mints = 0
    /\ last = NoEvent
    /\ probe = NoProbe
    /\ cache = [n \in Nodes |-> {}]
    /\ got = NoGot
    /\ net = NoNet
    /\ trial = NoTrial
    /\ \E stream \in Streams : \E strength \in {3, 13} :
       \E hp \in {1, 15} : \E bandages \in {0, 1} :
          combat = [pc |-> "start", fighter |-> Brawler(strength, hp, bandages),
                    avatar |-> Brawler(strength, hp, bandages),
                    stream |-> stream, randoms |-> stream,
                    monster |-> 0, monster_hp |-> 0, entered |-> 0, rounds |-> 0,
                    outcome |-> Raised(NoAvatar, "none")]

\* HackAndSlash.execute up to the loop: the monster is drawn with
\* randoms.pop(), an IndexError on an empty stream.
DrawMonster ==
    /\ combat.pc = "start"
    /\ combat' =
         IF combat.randoms = <<>>
         THEN [combat EXCEPT !.pc = "over",
                             !.outcome = Raised(combat.avatar, "IndexError")]
         ELSE LET n == Len(combat.randoms)
                  k == (combat.randoms[n] % Len(Monsters)) + 1
              IN  [combat EXCEPT !.pc = "loop", !.monster = k,
                                 !.monster_hp = Monsters[k].hp,
                                 !.randoms = SubSeq(combat.randoms, 1, n - 1),
                                 !.entered = n - 1]
    /\ UNCHANGED <<store, pending, mints, last, probe, cache, got, net, trial>>

\* One iteration of while True: ... of HackAndSlash.execute.
Round ==
    /\ combat.pc = "loop"
    /\ combat.rounds < MaxRounds
    /\ \E b \in {Bandage(combat.avatar, combat.randoms)} :
       \E e \in {Exchange(b.avatar, Monsters[combat.monster],
                          combat.monster_hp, b.randoms)} :
       \E w \in {roll(e.randoms, Dice(1, 10, 0))} :
          LET item == Monsters[combat.monster].reward[w.value]
              return(avatar, result) ==
                  [combat EXCEPT !.pc = "over", !.rounds = @ + 1,
                                 !.avatar = avatar,
                                 !.outcome = [avatar |-> avatar, error |-> "none",
                                              result |-> result]]
          IN  combat' =
                IF b.out THEN return(b.avatar, "finish")
                ELSE IF e.out THEN return(e.avatar, "finish")
                ELSE IF e.monster_hp <= 0
                THEN IF w.out THEN return(e.avatar, "finish")
                     ELSE return(IF item # ""
                                 THEN [e.avatar EXCEPT !.items = get_item(@, item)]
                                 ELSE e.avatar, "win")
                ELSE IF e.avatar.hp <= 0 THEN return(e.avatar, "lose")
                ELSE [combat EXCEPT !.rounds = @ + 1, !.avatar = e.avatar,
                                    !.monster_hp = e.monster_hp,
                                    !.randoms = e.randoms]
    /\ UNCHANGED <<store, pending, mints, last, probe, cache, got, net, trial>>

NextRounds == DrawMonster \/ Round

\* The interpreter runs the call to its end: a step that can be taken is
\* taken.
SpecRounds == InitRounds /\ [][NextRounds]_vars /\ WF_vars(NextRounds)

-----------------------------------------------------------------------------
(* The specification of the replay of a sequence of moves on one avatar:   *)
(* the loop of Avatar.get, each move executed on the avatar the previous   *)
(* one left, from a novice as earlier moves of the sequence can have left  *)
(* it: wounded or not, with or without a bandage, with or without xp.      *)

\* number of moves of the sequence
MaxSequence == 3
\* length of the longest random stream of a move of the sequence
MaxDraws == 4

\* The moves of the sequence: one of each class that has an execute, the
\* level_up moves naming constitution, strength and hp.
SequenceMoves ==
    {k \in 1 .. 19 :
        \/ /\ MoveCatalog(k).name \in {"create_novice", "sleep", "hack_and_slash",
                                       "say", "send", "combine"}
           /\ MoveCatalog(k).signer = "A"
        \/ /\ MoveCatalog(k).name = "level_up"
           /\ MoveCatalog(k).details.new_status \in {"constitution", "strength", "hp"}}

\* The random streams of the moves of the sequence.
Draws == UNION {[1 .. len -> StreamValues] : len \in 0 .. MaxDraws}

InitSequence ==
    /\ store = [n \in Nodes |-> EmptyStore]
    /\ pending = [n \in Nodes |-> <<>>]
    /\ mints = 0
    /\ last = NoEvent
    /\ probe = NoProbe
    /\ cache = [n \in Nodes |-> {}]
    /\ got = NoGot
    /\ net = NoNet
    /\ combat = NoCombat
    /\ \E hp \in {1, 3, 15} : \E bandages \in {0, 1} : \E xp \in {0, 8} :
          trial = [pc |-> "replay", op |-> "get", steps |-> 0, move |-> 0,
                   avatar |-> [Fighter(hp, bandages) EXCEPT !.xp = xp],
                   outcome |-> Raised(NoAvatar, "none")]

\* avatar, result = move.execute(avatar) of the loop of Avatar.get; an
\* exception of execute ends the replay.
ReplayStep(k, randoms) ==
    /\ trial.pc = "replay"
    /\ trial.op = "get"
    /\ trial.steps < MaxSequence
    /\ \E r \in {IF MoveCatalog(k).name = "hack_and_slash"
                 THEN HackAndSlash(trial.avatar, randoms)
                 ELSE Execute(EmptyStore, SignedMove(k), trial.avatar)} :
          trial' = [trial EXCEPT !.pc = IF r.error = "none" THEN "replay" ELSE "raised",
                                 !.steps = @ + 1, !.move = k,
                                 !.avatar = r.avatar, !.outcome = r]
    /\ UNCHANGED <<store, pending, mints, last, probe, cache, got, net, combat>>

NextSequence ==
    \E k \in SequenceMoves :
        \E randoms \in IF MoveCatalog(k).name = "hack_and_slash" THEN Draws ELSE {<<>>} :
            ReplayStep(k, randoms)

SpecSequence == InitSequence /\ [][NextSequence]_vars

-----------------------------------------------------------------------------
(* The specification of the branch-point probe on its own: a local chain   *)
(* of `tip` blocks and a longer peer chain of `peer` blocks whose hashes   *)
(* agree exactly at the heights 1..common.                                 *)

ProbeLocal(pr) ==
    {[id |-> i,
      hash |-> IF i <= pr.common THEN <<"sha256", "both", i>>
               ELSE <<"sha256", "local", i>>] : i \in 1 .. pr.tip}

ProbePeer(pr) ==
    {[id |-> i,
      hash |-> IF i <= pr.common THEN <<"sha256", "both", i>>
               ELSE <<"sha256", "peer", i>>] : i \in 1 .. pr.peer}

InitProbe ==
    /\ store = [n \in Nodes |-> EmptyStore]
    /\ pending = [n \in Nodes |-> <<>>]
    /\ mints = 0
    /\ last = NoEvent
    /\ cache = [n \in Nodes |-> {}]
    /\ got = NoGot
    /\ net = NoNet
    /\ combat = NoCombat
    /\ trial = NoTrial
    /\ \E tip \in 1 .. MaxTip : \E common \in 0 .. tip : \E more \in 1 .. 2 :
          probe = [pc |-> "tip", tip |-> tip, peer |-> tip + more,
                   common |-> common, bp |-> 0]

\* if find_branch_point(last_block.id, last_block.id) == last_block.id
ProbeTip ==
    /\ probe.pc = "tip"
    /\ probe' =
          IF find_branch_point(ProbeLocal(probe), ProbePeer(probe),
                               probe.tip, probe.tip) = probe.tip
          THEN [probe EXCEPT !.pc = "done", !.bp = probe.tip]
          ELSE [probe EXCEPT !.pc = "search"]
    /\ UNCHANGED <<store, pending, mints, last, cache, got, net, combat, trial>>

\* else: branch_point = find_branch_point(0, last_block.id)
ProbeSearch ==
    /\ probe.pc = "search"
    /\ probe' = [probe EXCEPT !.pc = "done",
                    !.bp = find_branch_point(ProbeLocal(probe), ProbePeer(probe),
                                             0, probe.tip)]
    /\ UNCHANGED <<store, pending, mints, last, cache, got, net, combat, trial>>

NextProbe == ProbeTip \/ ProbeSearch

SpecProbe == InitProbe /\ [][NextProbe]_vars

-----------------------------------------------------------------------------
(* The claims.                                                             *)

\* The greatest height at which two chains hold the same hash, 0 for none.
GreatestCommon(blocks, served) ==
    LET same == {b.id : b \in {x \in blocks :
                     \E w \in served : w.id = x.id /\ w.hash = x.hash}}
    IN  IF same = {} THEN 0
        ELSE CHOOSE i \in same : \A j \in same : j <= i

\* C1: for a local chain and a longer peer chain whose hashes agree exactly
\* on the heights 1..k, the branch point sync computes (the tip check, then
\* find_branch_point(0, tip)) is k, the greatest height with equal hashes.
C1_BranchPointIsGreatest ==
    probe.pc = "done" =>
        probe.bp = GreatestCommon(ProbeLocal(probe), ProbePeer(probe))

Aborted == {"InvalidMoveError", "InvalidBlockError"}

\* C3: a sync that aborts on an invalid move or an invalid block leaves the
\* local store exactly as it was: no block deleted, no move detached, no
\* fetched block or move persisted.
C3_AbortRestoresStore ==
    [][(last'.op = "sync" /\ last'.outcome \in Aborted) => store' = store]_vars

\* C3 happens: a sync aborted after it had deleted a local block that held
\* a move and had applied an earlier block of the peer.
C3_Witness ==
    /\ last.op = "sync"
    /\ last.outcome \in Aborted
    /\ last.dropped >= 1
    /\ TipId(store[last.peer]) >= last.bp + 2
    /\ \E m \in store[last.node].moves : m.block_id > last.bp

\* Whether two stores hold the same hash at every height up to the lower tip.
Agree(sa, sb) ==
    \A h \in 1 .. Min(TipId(sa), TipId(sb)) :
        {b.hash : b \in GetBlock(sa, h)} = {b.hash : b \in GetBlock(sb, h)}

\* C4 as stated: after A syncs against B and then B against A, for any two
\* chains, chains of equal height included, both hold the same block at
\* every height.
C4_ConvergenceWithTies ==
    (last.op = "sync" /\ last.after \in {"differ", "tie"}) =>
        Agree(store[last.node], store[last.peer])

\* C4 amended: after A syncs against B and then B against A, both syncs
\* returning True, and the chains not being divergent chains of equal
\* height, both nodes hold the same blocks: the same tip and the same block
\* at every height.
C4_ConvergenceOfUnequal ==
    (last.op = "sync" /\ last.after = "differ") =>
        /\ store[last.node].blocks = store[last.peer].blocks
        /\ Agree(store[last.node], store[last.peer])

\* C4 happens: the second of the two syncs replaced a divergent branch.
C4_Witness ==
    /\ last.op = "sync"
    /\ last.after = "differ"
    /\ last.outcome = "ok"
    /\ last.dropped >= 1

\* C5: every stored block above height 1 has the hash of the stored block
\* one below as its prev_hash, and a stored block has no prev_hash exactly
\* when its id is 1.
C5_ChainContinuity ==
    \A n \in Nodes : \A b \in store[n].blocks :
        /\ b.id > 1 => \E prev \in GetBlock(store[n], b.id - 1) :
                          b.prev_hash = prev.hash
        /\ b.prev_hash = NoHash <=> b.id = 1

\* C6: the root_hash of every stored block is the hash of the sorted ids of
\* the moves whose block_id is that block's id.
C6_RootHashOfAttachedMoves ==
    \A n \in Nodes : \A b \in store[n].blocks :
        b.root_hash = RootHash({m.id : m \in BlockMoves(store[n], b.id)})

\* C7: after a successful sync every move listed in a fetched block is
\* stored with that block's id as its block_id, whether the row is new or
\* was already there.
C7_SyncAttachesMoves ==
    (last.op = "sync" /\ last.outcome = "ok") =>
        \A w \in Served(store[last.peer], last.defect) :
            w.id > last.bp =>
                \A wm \in w.moves :
                    \E m \in store[last.node].moves :
                        m.id = wm.id /\ m.block_id = w.id

OneBlockPerHeight ==
    \A n \in Nodes : \A b1, b2 \in store[n].blocks : b1.id = b2.id => b1 = b2

\* C8: when create_block finishes minting and a block with its id is
\* already stored, it returns no block and the store is unchanged; at most
\* one block is ever stored per height.
C8_RaceLoss ==
    /\ []OneBlockPerHeight
    /\ [][\A n \in Nodes :
            (/\ pending[n] # <<>>
             /\ pending'[n] = <<>>
             /\ GetBlock(store[n], pending[n][1].block.id) # {})
            => (store' = store /\ last'.outcome = "lost")]_vars

\* C8 happens: a mint finished after a sync had stored a block at its height.
C8_Witness ==
    /\ last.op = "mintfinish"
    /\ last.outcome = "lost"
    /\ GetBlock(store[last.node], 1) # {}

C10_DifficultyNonNegative ==
    \A n \in Nodes : \A b \in store[n].blocks : b.difficulty >= 0

\* The block of store s that the difficulty of block b is measured from.
CheckBlock(s, b) == CHOOSE c \in s.blocks : c.id = Max(1, b.id - 10)

\* C11 as stated: the block built on tip H has the tip's difficulty plus 1
\* when the exact quotient avg_dt = (now - B10.created_at) / (H+1 - B10.id)
\* is at most 5 s, minus 1 when it is above 15 s, and the tip's difficulty
\* otherwise, B10 being the block at max(1, H-9); the divisor is not zero and
\* genesis has difficulty 0.
C11_DifficultyByExactAverage ==
    \A b \in store["A"].blocks :
        IF b.id = 1 THEN b.difficulty = 0
        ELSE LET prev == CHOOSE c \in store["A"].blocks : c.id = b.id - 1
                 check == CheckBlock(store["A"], b)
                 n == b.id - check.id
                 total == b.created_at - check.created_at
             IN  /\ n >= 1
                 /\ b.difficulty =
                        IF total <= 5000000 * n THEN prev.difficulty + 1
                        ELSE IF total > 15000000 * n THEN prev.difficulty - 1
                        ELSE prev.difficulty

\* C11 amended: the same rule with avg_dt rounded to a whole microsecond,
\* half to even, before it is compared (so an average of 5.0000005 s counts
\* as 5 s and one of 15.0000005 s as 15 s); and ten blocks produced within
\* 40 s make the next difficulty the previous one plus 1.
C11_DifficultyByRoundedAverage ==
    \A b \in store["A"].blocks :
        IF b.id = 1 THEN b.difficulty = 0
        ELSE LET prev == CHOOSE c \in store["A"].blocks : c.id = b.id - 1
                 check == CheckBlock(store["A"], b)
                 n == b.id - check.id
                 total == b.created_at - check.created_at
             IN  /\ n >= 1
                 /\ b.difficulty =
                        IF 2 * total <= (2 * 5000000 + 1) * n
                        THEN prev.difficulty + 1
                        ELSE IF 2 * total > (2 * 15000000 + 1) * n
                        THEN prev.difficulty - 1
                        ELSE prev.difficulty
                 /\ (b.id >= 11 /\ n = 10 /\ total <= 40000000)
                        => b.difficulty = prev.difficulty + 1

\* C11 happens: a chain whose window of ten blocks has left genesis, with a
\* block whose average was within half a microsecond above 5 s and a tip
\* that closes ten blocks produced within 40 s.
C11_Witness ==
    /\ TipId(store["A"]) >= 13
    /\ \E b \in store["A"].blocks :
          /\ b.id > 1
          /\ LET check == CheckBlock(store["A"], b)
                 n == b.id - check.id
                 total == b.created_at - check.created_at
             IN  total > 5000000 * n /\ 2 * total <= (2 * 5000000 + 1) * n
    /\ \E b \in LastBlock(store["A"]) :
          /\ CheckBlock(store["A"], b).id > 1
          /\ b.created_at - CheckBlock(store["A"], b).created_at <= 40000000

\* C12: a sync against a peer whose tip is not above the local tip, or that
\* has no block, returns without changing any local block or move, also
\* when the two chains differ.
C12_LongestChainStops ==
    [][(last'.op = "sync"
        /\ \/ store[last'.peer].blocks = {}
           \/ TipId(store[last'.node]) >= TipId(store[last'.peer]))
       => (store' = store /\ last'.outcome \in Returned)]_vars

\* C12 happens: a sync returned at once against a chain of the same height
\* that holds different blocks.
C12_Witness ==
    /\ last.op = "sync"
    /\ last.outcome = "longest"
    /\ last.tie

\* C13: a successful sync keeps every move of the local blocks it deletes,
\* with the same id and fields; the move's block_id is null unless one of
\* the peer's newly applied blocks lists the move.
C13_RollbackKeepsMoves ==
    [][(last'.op = "sync" /\ last'.outcome = "ok") =>
         LET n == last'.node
             served == Served(store[last'.peer], last'.defect)
         IN  \A m \in store[n].moves :
                m.block_id > last'.bp =>
                   \E m2 \in store'[n].moves :
                      /\ [m2 EXCEPT !.block_id = NoBlock]
                           = [m EXCEPT !.block_id = NoBlock]
                      /\ \/ m2.block_id = NoBlock
                         \/ \E w \in served :
                               /\ w.id > last'.bp
                               /\ m2.id \in {wm.id : wm \in w.moves}]_vars

\* C13 happens: a sync succeeded that deleted a local block holding a move,
\* and the move is still stored, detached.
C13_Witness ==
    /\ last.op = "sync"
    /\ last.outcome = "ok"
    /\ last.dropped >= 1
    /\ last.detached >= 1
    /\ \E m \in store[last.node].moves :
          /\ m.block_id = NoBlock
          /\ \A w \in Served(store[last.peer], "none") :
                m.id \notin {wm.id : wm \in w.moves}

\* The rows by ascending block id, and by ascending move id within a block.
RECURSIVE InBlockOrder(_)
InBlockOrder(rows) ==
    IF rows = {} THEN <<>>
    ELSE LET x == CHOOSE r \in rows : \A q \in rows :
                     \/ r.block_id < q.block_id
                     \/ r.block_id = q.block_id /\ r.id <= q.id
         IN  <<x>> \o InBlockOrder(rows \ {x})

\* C14: Avatar.get applies the moves of the user and the receive effects of
\* the sends addressed to the user in ascending block-id order and, within a
\* block, in ascending move-id order: whatever order the store returns the
\* rows in, the outcome is that of the replay in that order.
C14_ReplayInBlockOrder ==
    got.op = "get" /\ ~got.hit =>
        LET s == store[got.node]
            rows == {got.order[i] : i \in 1 .. Len(got.order)}
            r == AvatarGet(s, got.user, got.block_id, InBlockOrder(rows))
        IN  got.avatar = r.avatar /\ got.error = r.error

\* C15: the memoized reconstructor never serves a stale avatar: whatever
\* create_block and sync have done before, what Avatar.get returns is the
\* outcome of an uncached replay over the chain the node has now.
C15_NeverStale ==
    got.op = "get" =>
        \E order \in AvatarOrders(store[got.node], got.user, got.block_id) :
            LET r == AvatarGet(store[got.node], got.user, got.block_id, order)
            IN  got.avatar = r.avatar /\ got.error = r.error

\* The confirmed moves of the user the last Avatar.get was called for.
OwnConfirmed == {m \in store[got.node].moves : m.user = got.user /\ m.block_id # NoBlock}

\* The confirmed sends that name that user as receiver, in blocks c..ceiling.
SendsReceived(c) ==
    {m \in store[got.node].moves :
        /\ MoveCatalog(m.body).name = "send"
        /\ MoveCatalog(m.body).details.receiver = got.user
        /\ m.block_id # NoBlock
        /\ m.block_id >= c
        /\ m.block_id <= got.block_id}

\* The avatar returned is the novice of create move m: full hp, no xp,
\* level 1, and 8 GOLD for each block the user created up to the ceiling.
FreshNovice(m) ==
    /\ got.error = "none"
    /\ got.avatar.class = "Novice"
    /\ got.avatar.constitution = MoveCatalog(m.body).details.constitution
    /\ got.avatar.hp = got.avatar.constitution + 6
    /\ got.avatar.hp = max_hp(got.avatar)
    /\ got.avatar.xp = 0
    /\ got.avatar.lv = 1
    /\ got.avatar.items["GOLD"] =
          8 * Cardinality({b \in store[got.node].blocks :
                              b.creator = got.user /\ b.id <= got.block_id})

C17_ItemCountsNonNegative ==
    got.op = "get" /\ got.error = "none" /\ got.avatar # NoAvatar =>
        \A item \in DOMAIN got.avatar.items : got.avatar.items[item] \in Nat

\* A replayed move that is neither a sell nor a buy.
NotSellBuy(m) == MoveCatalog(m.body).name \notin {"sell", "buy"}

\* C18: sell and buy moves are no-ops for the replay: Avatar.get ends as
\* the replay of the same rows without the sell and buy moves ends, with
\* the same avatar.
C18_SellBuyAreNoOps ==
    got.op = "get" /\ ~got.hit =>
        LET r == AvatarGet(store[got.node], got.user, got.block_id,
                           SelectSeq(got.order, NotSellBuy))
        IN  got.avatar = r.avatar /\ got.error = r.error

\* C19: random exhaustion in combat is never an error: for every random
\* stream, an empty one included, HackAndSlash.execute returns normally with
\* result win, lose or finish, and with finish when the stream is empty.
C19_ExhaustionIsFinish ==
    combat.pc = "done" =>
        /\ combat.outcome.error = "none"
        /\ combat.outcome.result \in {"win", "lose", "finish"}
        /\ SliceFrom(combat.stream, IntQuarter(combat.difficulty)) = <<>> =>
              combat.outcome.result = "finish"

\* C20: Node.broadcast never posts to the sender and never posts twice to a
\* node; when it returns it has posted exactly once to every known node
\* whose URL differs from the sender's, the nodes that refused the
\* connection included, the object has reached every one of them that did not
\* refuse, and the result is success.
C20_BroadcastReachesPeers ==
    /\ net.pc \in {"loop", "done"} =>
          \A url \in Urls :
              /\ Posts(net.log, url) <= 1
              /\ url = net.sent_node \/ url \notin net.known => Posts(net.log, url) = 0
    /\ net.pc = "done" =>
          /\ \A url \in net.known \ {net.sent_node} : Posts(net.log, url) = 1
          /\ {net.log[i].url : i \in {j \in 1 .. Len(net.log) : net.log[j].posted}}
                = (net.known \ {net.sent_node}) \ net.down
          /\ net.result = TRUE

\* A broadcast has returned, the sender is among the known nodes, and a
\* node was reached after another had refused the connection.
C20_Witness ==
    /\ net.pc = "done"
    /\ net.sent_node \in net.known
    /\ \E i \in 1 .. Len(net.log) : \E j \in 1 .. Len(net.log) :
          i < j /\ ~net.log[i].posted /\ net.log[j].posted

\* C21: Node.broadcast sets last_connected_at for exactly the nodes to which
\* the post succeeded: never for the sender it skips nor for a node that
\* refused the connection, and when it returns, for every other known node;
\* the set of known nodes is the one it started with.
C21_TimestampsOfReached ==
    /\ [](net.pc \in {"loop", "done"} =>
            /\ net.connected =
                  {net.log[i].url : i \in {j \in 1 .. Len(net.log) : net.log[j].posted}}
            /\ net.sent_node \notin net.connected
            /\ net.connected \cap net.down = {}
            /\ net.connected \subseteq net.known)
    /\ [](net.pc = "done" =>
            /\ net.connected = (net.known \ {net.sent_node}) \ net.down
            /\ net.committed)
    /\ [][net'.known = net.known]_vars

\* A broadcast has returned that skipped a known sender, was refused by a
\* node and set the timestamp of another.
C21_Witness ==
    /\ net.pc = "done"
    /\ net.sent_node \in net.known
    /\ (net.known \ {net.sent_node}) \cap net.down # {}
    /\ net.connected # {}

\* C22: a move whose name is not a recognized variant tag is invalid even
\* with a correct signature, user address and id: no node stores one, and a
\* sync never returns normally having stored one confirmed.
C22_UnknownNameIsInvalid ==
    \A n \in Nodes : \A m \in store[n].moves :
        MoveCatalog(m.body).name \notin RecognizedNames =>
            /\ ~MoveValid(m)
            /\ ~(last.op = "sync" /\ last.node = n /\ last.outcome = "ok")

\* C23: LevelUp.execute on an avatar with xp >= lv + 7 takes lv + 7 from
\* xp, which stays non-negative, adds 1 to lv and to the ability named by
\* new_status, adds 1 to hp exactly when that ability is constitution,
\* changes nothing else and reports success; with less xp it reports failed
\* and changes nothing.
C23_LevelUpEffect ==
    trial.pc = "done" /\ trial.op = "level_up" =>
        LET a == trial.avatar
            o == trial.outcome
            status == MoveCatalog(trial.move).details.new_status
        IN  /\ o.error = "none"
            /\ IF a.xp >= a.lv + 7
               THEN /\ o.result = "success"
                    /\ o.avatar.xp = a.xp - (a.lv + 7)
                    /\ o.avatar.xp >= 0
                    /\ o.avatar.lv = a.lv + 1
                    /\ o.avatar[status] = a[status] + 1
                    /\ o.avatar.hp = a.hp + (IF status = "constitution" THEN 1 ELSE 0)
                    /\ DOMAIN o.avatar = DOMAIN a
                    /\ \A f \in DOMAIN a \ {"xp", "lv", "hp", status} :
                          o.avatar[f] = a[f]
               ELSE o.result = "failed" /\ o.avatar = a

\* The example of the claim: xp 8, lv 1, strength gives xp 0, lv 2, one
\* more strength and the same hp.
C23_Witness ==
    /\ trial.pc = "done"
    /\ trial.op = "level_up"
    /\ MoveCatalog(trial.move).details.new_status = "strength"
    /\ trial.avatar.xp = 8
    /\ trial.avatar.lv = 1
    /\ trial.outcome.result = "success"
    /\ trial.outcome.avatar.xp = 0
    /\ trial.outcome.avatar.lv = 2
    /\ trial.outcome.avatar.strength = trial.avatar.strength + 1
    /\ trial.outcome.avatar.hp = trial.avatar.hp

\* The sum of (v mod M) + 1 over the last n values of a stream.
RECURSIVE SumOfLast(_, _, _)
SumOfLast(s, n, M) ==
    IF n = 0 THEN 0
    ELSE ((s[Len(s)] % M) + 1) + SumOfLast(SubSeq(s, 1, Len(s) - 1), n - 1, M)

\* C24: Move.roll(randoms, 'NdM+K') on a stream of at least N values
\* removes exactly the last N values, leaves the rest as it was and returns
\* the sum of (v mod M) + 1 over them plus K, a value from N+K to N*M+K; on
\* a shorter stream it raises the out-of-random condition.
C24_RollDrawsFromTail ==
    trial.pc = "done" /\ trial.op = "roll" =>
        LET s == trial.randoms
            N == trial.dice.cnt
            M == trial.dice.dice_type
            K == trial.dice.plus
            o == trial.outcome
        IN  IF Len(s) >= N
            THEN /\ ~o.out
                 /\ o.randoms = SubSeq(s, 1, Len(s) - N)
                 /\ o.value = SumOfLast(s, N, M) + K
                 /\ o.value \in (N + K) .. (N * M + K)
            ELSE o.out

\* The doctest: roll([1, 7, 3], '2d6') is 6 and leaves [1].
C24_Witness ==
    /\ trial.pc = "done"
    /\ trial.op = "roll"
    /\ trial.randoms = <<1, 7, 3>>
    /\ trial.dice = Dice(2, 6, 0)
    /\ ~trial.outcome.out
    /\ trial.outcome.value = 6
    /\ trial.outcome.randoms = <<1>>

\* The rows Avatar.get replays for a user up to a ceiling.
RowsOf(s, user_addr, block_id) ==
    IF CreateMove(s, user_addr, block_id) = {} THEN {}
    ELSE ReplayRows(s, user_addr, block_id,
                    CHOOSE m \in CreateMove(s, user_addr, block_id) : TRUE)

\* How many of an item the replay of a set of rows leaves the user with.
HeldAfter(s, user_addr, block_id, rows, item) ==
    LET r == AvatarGet(s, user_addr, block_id, InBlockOrder(rows))
    IN  IF r.avatar = NoAvatar \/ item \notin DOMAIN r.avatar.items THEN 0
        ELSE r.avatar.items[item]

\* What the presence of move m among the rows adds to the user's count of
\* an item at the tip of the chain.
EffectOf(s, user_addr, m, item) ==
    HeldAfter(s, user_addr, TipId(s), RowsOf(s, user_addr, TipId(s)), item)
      - HeldAfter(s, user_addr, TipId(s), RowsOf(s, user_addr, TipId(s)) \ {m}, item)

\* C25: for every confirmed send, the receiver's replay is credited with
\* the amount exactly when the sender's replay is debited by it, so that a
\* send that fails changes the total of the item over the two users by
\* nothing.
C25_TransferConserves ==
    \A n \in Nodes : \A m \in store[n].moves :
        m.block_id # NoBlock /\ MoveCatalog(m.body).name = "send" =>
            LET d == MoveCatalog(m.body).details
                credit == EffectOf(store[n], d.receiver, m, d.item_name)
                debit == - EffectOf(store[n], m.user, m, d.item_name)
            IN  /\ credit = d.amount <=> debit = d.amount
                /\ credit - debit = 0

\* C26: HackAndSlash.execute always terminates: every iteration of the
\* combat loop that is followed by another one has drawn at least two
\* values of the stream, so that on a stream of n values the loop runs at
\* most n/2 + 1 iterations and then returns win, lose or finish, which is
\* the result of the move.
C26_CombatTerminates ==
    /\ [](combat.pc = "loop" =>
             /\ 2 * combat.rounds <= combat.entered - Len(combat.randoms)
             /\ combat.rounds <= combat.entered \div 2)
    /\ [](combat.pc = "over" /\ combat.rounds > 0 =>
             /\ combat.rounds <= (combat.entered \div 2) + 1
             /\ combat.outcome.error = "none"
             /\ combat.outcome.result \in {"win", "lose", "finish"}
             /\ combat.outcome = HackAndSlash(combat.fighter, combat.stream))
    /\ (combat.pc = "start" ~> combat.pc = "over")

\* A weak novice whose first attack roll, modified, is below 2: neither
\* side is damaged and the loop goes round again, to run out of values.
C26_Witness ==
    /\ combat.pc = "over"
    /\ combat.rounds = 3
    /\ combat.fighter.strength = 3
    /\ combat.avatar.hp = combat.fighter.hp
    /\ combat.outcome.result = "finish"

\* C27: after every move of a replayed sequence of create_novice, sleep,
\* level_up, hack_and_slash, say, send and combine moves on an avatar
\* created with a constitution of 1 or more, the hp of the avatar is at
\* most its max_hp, constitution + 6.
C27_HpWithinMax ==
    trial.pc \in {"replay", "raised"} /\ trial.avatar.constitution >= 1 =>
        trial.avatar.hp <= max_hp(trial.avatar)

====
